---- MODULE Spec2Model ----
(***************************************************************************)
(* Model of the terminal game engine (engine/src/lib.rs): the World with   *)
(* its entity list, removal queue, component store and double-buffered     *)
(* Map, and World::update_entities, which is one tick.                     *)
(*                                                                         *)
(* The behaviour of an entity (Box<dyn Entity>) is an arbitrary sequence   *)
(* of calls into the World made from inside its start or update hook.      *)
(* The specifications differ only in the calls the hooks make:             *)
(*   SchedSpec  add_entity, remove_entity (SchedFairSpec: with fairness)   *)
(*   GridSpec   add_entity, remove_entity, map.write, query_map            *)
(*   AttrSpec   add_entity, remove_entity, set_component, get_component    *)
(*   RedrawSpec as GridSpec, with fewer entities making more calls         *)
(*   LoopSpec   World::game_loop calling update_entities, with a clock     *)
(* The grid and the component store are disjoint parts of the World and    *)
(* no scheduler step reads either, so each specification keeps everything  *)
(* the properties checked under it depend on.  As in main.rs, the code     *)
(* that owns the World between ticks only adds entities.                   *)
(***************************************************************************)
EXTENDS Integers, Sequences, FiniteSets, TLC

(* ------------------------------ bounds --------------------------------- *)
\* add_entity is called at most this many times (next_id stays below it)
MaxEntities == 4
\* the same under GridSpec
MaxWriters == 3
\* the same under AttrSpec
MaxBags == 2
\* the same under RedrawSpec
MaxActors == 1
\* update_entities runs at most this many times
MaxTicks == 4
\* the same under GridSpec
MaxGridTicks == 3
\* calls into the World one start or update hook makes, at most
MaxHookOps == 2
\* the same under SchedSpec, GridSpec and AttrSpec
MaxTerseOps == 1
\* length the removal queue may reach between two filter steps
MaxQueue == 2
\* the clock advances in steps of this many milliseconds
Quantum == 10
\* the clock stops advancing this many milliseconds after the latest
\* Instant::now()
MaxElapsed == 60
\* Map::new(width, height)
MapWidth == 2
MapHeight == 1

(* ------------------------------ helpers -------------------------------- *)
Range(s) == {s[k] : k \in 1..Len(s)}

Ids(es) == [k \in 1..Len(es) |-> es[k].id]

IdSet(es) == {es[k].id : k \in 1..Len(es)}

StrictlyIncreasing(s) == \A a, b \in 1..Len(s) : a < b => s[a] < s[b]

\* every handle add_entity can assign, and one it never assigns
Handles == 0..MaxEntities

\* the attribute types of main.rs and the values stored under them
Types == {"Health", "Align"}
Values == {"v1", "v2"}
None == "None"

\* what last_query, last_get and last_write hold when the latest call was
\* not the one they record
NoCall == <<>>

\* the glyph and color an entity writes: as in main.rs every entity writes
\* one fixed pair; even handles write as Bullet, odd ones as Plibble
BrushOf(id) == IF id % 2 = 0 THEN <<"*", "Blue">> ELSE <<"@", "Red">>

Cells == (0..(MapWidth - 1)) \X (0..(MapHeight - 1))

\* positions a hook may pass: every cell and one step beyond each edge
Positions == (0..MapWidth) \X (0..MapHeight)

NoEntity == [id |-> -1, started |-> FALSE]

\* an event of update_entities itself: no handle, no caller
Phase(kind) == <<kind, NoEntity.id, NoEntity.id>>

\* const MIN_FRAME_TIME: f64 = 0.04, in milliseconds
MIN_FRAME_TIME == 40

\* the keys update_input may deliver: the quit key and another one
Keys == {"q", "x"}

(* ------------------------------ state ---------------------------------- *)
VARIABLES
    entities,        \* World.entities: sequence of [id, started]
    removal_queue,   \* World.removal_queue
    next_id,         \* World.next_id
    components,      \* World.components: handle -> (type -> value)
    tiles,           \* World.map.tiles: cell -> MapTile
    ui_draws,        \* terminal_draw calls made by this tick's World::draw
    pc,              \* position in update_entities ("idle" outside it)
    entity_count,    \* local of update_entities
    loop_i,          \* the for-loop's _i
    current_entity,  \* local of update_entities
    hook_ops,        \* calls made so far by the running hook
    last_query,      \* what the hook's latest call returned, if a query_map
    last_get,        \* what the hook's latest call returned, if a get_component
    last_write,      \* the arguments of the hook's latest call, if a map.write
    \* ---- history, not program state ----
    tick,            \* number of completed ticks: the tick in progress is tick
    snapshot,        \* handles live right after this tick's filter step
    calls,           \* this tick's events <<kind, handle, caller>>: the
                     \* filter step, the start and update calls, the hooks'
                     \* add/remove calls, the flush and the clear
    assigned,        \* handles assigned by add_entity, in call order
    requested,       \* assigned handles passed to remove_entity so far
    doomed,          \* requested, as of the latest filter step
    dropped,         \* handles whose slot a filter step dropped
    veteran,         \* handles updated in a tick before the one of calls
    start_count,     \* handle -> number of start calls
    log,             \* cell -> handles written in this tick, in order
    last_log,        \* cell -> handles written in the previous tick
    sets,            \* handle -> type -> the last two values passed to
                     \* set_component for them, in call order
    \* ---- game_loop ----
    lp,              \* position in game_loop ("entry" before it is called)
    elapsed,         \* now.elapsed() in milliseconds, were it read
    delta,           \* local of game_loop, in milliseconds
    current_input,   \* ui.current_input
    \* ---- history of game_loop ----
    measured,        \* the first value of delta in this iteration
    slept,           \* this iteration has called thread::sleep
    gap,             \* milliseconds between the two latest Instant::now()
    entered          \* value of tick when update_entities was last called

prog_vars == <<entities, removal_queue, next_id, components, tiles, ui_draws,
               pc, entity_count, loop_i, current_entity, hook_ops,
               last_query, last_get, last_write>>

hist_vars == <<tick, snapshot, calls, assigned, requested, doomed, dropped,
               veteran, start_count, log, last_log, sets>>

loop_vars == <<lp, elapsed, delta, current_input, measured, slept, gap,
               entered>>

vars == <<prog_vars, hist_vars, loop_vars>>

(* --------------------------- Map (lib.rs) ------------------------------ *)
MapTile(ch, col, cur, prev) ==
    [display_character |-> ch, color |-> col,
     current_contents |-> cur, previous_contents |-> prev]

MapNew == [c \in Cells |-> MapTile("#", "Black", <<>>, <<>>)]

\* u16::clamp(min, max)
Clamp(v, lo, hi) == IF v < lo THEN lo ELSE IF v > hi THEN hi ELSE v

\* a correction that wraps around the edge instead of stopping at it
WrapPosition(position) == <<position[1] % MapWidth, position[2] % MapHeight>>

ClampPosition(position) ==
    <<Clamp(position[1], 0, MapWidth - 1), Clamp(position[2], 0, MapHeight - 1)>>

MapWrite(t, position, character, color, id) ==
    LET p == ClampPosition(position) IN
    [t EXCEPT ![p] = MapTile(character, color,
                             Append(t[p].current_contents, id),
                             t[p].previous_contents)]

\* a clear that appends to previous_contents without emptying it first
TileClearKeeping(tile) ==
    MapTile(" ", "Black", <<>>, tile.previous_contents \o tile.current_contents)

\* previous_contents.clear(); previous_contents.append(&mut current_contents)
TileClear(tile) == MapTile(" ", "Black", <<>>, <<>> \o tile.current_contents)

MapClear(t) == [c \in Cells |-> TileClear(t[c])]

(* -------------------------- World (lib.rs) ----------------------------- *)
\* a push that inserts the new slot at the front
AddSlotFront(es, id) == <<[id |-> id, started |-> FALSE]>> \o es

\* entities.push(EntityData { entity, id: next_id, started: false })
AddSlot(es, id) == Append(es, [id |-> id, started |-> FALSE])

\* a next_id that is not advanced
SameHandle(id) == id

\* self.next_id += 1
NextHandle(id) == id + 1

\* a filter that keeps every slot
RetainAll(es, queue) == es

\* entities.retain(|x| !removal_queue.contains(&x.id))
Retain(es, queue) == SelectSeq(es, LAMBDA x : x.id \notin Range(queue))

\* tiles[position.0][position.1] indexes without clamping
InBounds(position) == position \in Cells

\* the index is evaluated in the loop over the entities, once per entity
QueryPanics(es, position) == es # <<>> /\ ~InBounds(position)

\* a query that reads the buffer being written in this tick
QueryMapCurrent(es, t, position) ==
    SelectSeq(es, LAMBDA e : e.id \in Range(t[position].current_contents))

\* a query that returns the previous_contents list itself
QueryMapList(es, t, position) ==
    [k \in 1..Len(t[position].previous_contents) |->
        [id |-> t[position].previous_contents[k], started |-> TRUE]]

\* the entities, in list order, whose id previous_contents contains
QueryMap(es, t, position) ==
    SelectSeq(es, LAMBDA e : e.id \in Range(t[position].previous_contents))

\* a key that is the same for every type
OneKey(ty) == <<"TypeId", "T">>

\* format!("{:?}", TypeId::of::<T>()): the printed TypeId, one per type
TypeKey(ty) == <<"TypeId", ty>>

GetComponent(comps, id, ty) ==
    IF id \in DOMAIN comps THEN comps[id][TypeKey(ty)] ELSE None

SetComponent(comps, id, ty, v) ==
    IF id \in DOMAIN comps THEN [comps EXCEPT ![id][TypeKey(ty)] = v] ELSE comps

\* HashMap::new()
EmptyBag == [k \in {TypeKey(ty) : ty \in Types} |-> None]

\* the cells in the order World::draw visits them, column by column
DrawOrder ==
    [k \in 1..(MapWidth * MapHeight) |->
        <<(k - 1) \div MapHeight, (k - 1) % MapHeight>>]

\* a draw that skips the cells nobody has written in this tick
DrawsCellCurrent(t, c) == t[c].current_contents # <<>>

DrawsCell(t, c) ==
    t[c].current_contents # <<>> \/ t[c].previous_contents # <<>>

Draw(t) ==
    LET shown == SelectSeq(DrawOrder, LAMBDA c : DrawsCell(t, c)) IN
    [k \in 1..Len(shown) |->
        <<shown[k], t[shown[k]].display_character, t[shown[k]].color>>]

\* a loop bounded by the list's length as it is now
MoreToVisitLive(i, count, es) == i < Len(es)

\* for _i in 0..entity_count
MoreToVisit(i, count, es) == i < count

\* a start that leaves the flag unset
LeaveUnstarted(e) == e

\* current_entity.started = true
MarkStarted(e) == [e EXCEPT !.started = TRUE]

\* a pop that leaves the visited slot in the list
Keep0(es) == es

\* self.entities.remove(0): what is left of the list
Remove0(es) == Tail(es)

\* a push that puts the visited slot back at the front
PushFront(es, e) == <<e>> \o es

\* a push that loses the visited slot
PushNothing(es, e) == es

\* self.entities.push(current_entity)
Push(es, e) == Append(es, e)

(* ------------------------------- Init ---------------------------------- *)
Init ==
    /\ entities = <<>>
    /\ removal_queue = <<>>
    /\ next_id = 0
    /\ components = <<>>
    /\ tiles = MapNew
    /\ ui_draws = <<>>
    /\ pc = "idle"
    /\ entity_count = 0
    /\ loop_i = 0
    /\ current_entity = NoEntity
    /\ hook_ops = 0
    /\ last_query = NoCall
    /\ last_get = NoCall
    /\ last_write = NoCall
    /\ tick = 0
    /\ snapshot = <<>>
    /\ calls = <<>>
    /\ assigned = <<>>
    /\ requested = {}
    /\ doomed = {}
    /\ dropped = {}
    /\ veteran = {}
    /\ start_count = [h \in Handles |-> 0]
    /\ log = [c \in Cells |-> <<>>]
    /\ last_log = [c \in Cells |-> <<>>]
    /\ sets = <<>>
    /\ lp = "entry"
    /\ elapsed = 0
    /\ delta = 0
    /\ current_input = None
    /\ measured = 0
    /\ slept = FALSE
    /\ gap = 0
    /\ entered = 0

(* --------------------------- World's calls ----------------------------- *)
InHook == pc \in {"start", "update"}

\* a hook may make another call
HookCanCall == InHook /\ hook_ops < MaxHookOps

CountCall == hook_ops' = IF InHook THEN hook_ops + 1 ELSE hook_ops

\* a hook's call, recorded in this tick's events
Record(kind, id) ==
    calls' = IF InHook THEN Append(calls, <<kind, id, current_entity.id>>)
             ELSE calls

\* called by the code that owns the World between ticks, or by a hook
add_entity ==
    /\ pc = "idle" \/ HookCanCall
    /\ next_id < MaxEntities
    /\ entities' = AddSlot(entities, next_id)
    /\ components' = (next_id :> EmptyBag) @@ components
    /\ next_id' = NextHandle(next_id)
    /\ CountCall
    /\ last_query' = NoCall
    /\ last_get' = NoCall
    /\ last_write' = NoCall
    /\ assigned' = Append(assigned, next_id)
    /\ Record("add", next_id)
    /\ UNCHANGED <<removal_queue, tiles, ui_draws, pc, entity_count, loop_i,
                   current_entity>>
    /\ UNCHANGED <<tick, snapshot, requested, doomed, dropped, veteran,
                   start_count, log, last_log>>
    /\ sets' = (next_id :> [ty \in Types |-> <<>>]) @@ sets
    /\ UNCHANGED loop_vars

\* called by a hook with an assigned handle or with the first unassigned one
remove_entity ==
    /\ HookCanCall
    /\ Len(removal_queue) < MaxQueue
    /\ \E id \in 0..next_id :
        /\ removal_queue' = Append(removal_queue, id)
        /\ requested' = IF id < next_id THEN requested \cup {id} ELSE requested
        /\ Record("remove", id)
    /\ CountCall
    /\ last_query' = NoCall
    /\ last_get' = NoCall
    /\ last_write' = NoCall
    /\ UNCHANGED <<entities, next_id, components, tiles, ui_draws, pc,
                   entity_count, loop_i, current_entity>>
    /\ UNCHANGED <<tick, snapshot, assigned, doomed, dropped, veteran,
                   start_count, log, last_log>>
    /\ UNCHANGED sets
    /\ UNCHANGED loop_vars

set_component ==
    /\ HookCanCall
    /\ \E id \in 0..next_id, ty \in Types, v \in Values :
        /\ components' = SetComponent(components, id, ty, v)
        /\ sets' = IF id < next_id
                   THEN [sets EXCEPT ![id][ty] =
                            IF @ = <<>> THEN <<v>> ELSE <<@[Len(@)], v>>]
                   ELSE sets
    /\ CountCall
    /\ last_query' = NoCall
    /\ last_get' = NoCall
    /\ last_write' = NoCall
    /\ UNCHANGED <<entities, removal_queue, next_id, tiles, ui_draws, pc,
                   entity_count, loop_i, current_entity>>
    /\ UNCHANGED <<tick, snapshot, calls, assigned, requested, doomed,
                   dropped, veteran, start_count, log, last_log>>
    /\ UNCHANGED loop_vars

get_component ==
    /\ HookCanCall
    /\ \E id \in 0..next_id, ty \in Types :
        last_get' = <<id, ty, GetComponent(components, id, ty)>>
    /\ CountCall
    /\ last_query' = NoCall
    /\ last_write' = NoCall
    /\ UNCHANGED <<entities, removal_queue, next_id, components, tiles,
                   ui_draws, pc, entity_count, loop_i, current_entity>>
    /\ UNCHANGED hist_vars
    /\ UNCHANGED loop_vars

\* world.map.write(position, glyph, color, id), made by a hook with its own id
map_write ==
    /\ HookCanCall
    /\ \E position \in Positions :
        /\ tiles' = MapWrite(tiles, position, BrushOf(current_entity.id)[1],
                             BrushOf(current_entity.id)[2], current_entity.id)
        /\ log' = [log EXCEPT ![ClampPosition(position)] =
                       Append(@, current_entity.id)]
        /\ last_write' = <<position, BrushOf(current_entity.id)[1],
                           BrushOf(current_entity.id)[2], current_entity.id>>
    /\ CountCall
    /\ last_query' = NoCall
    /\ last_get' = NoCall
    /\ UNCHANGED <<entities, removal_queue, next_id, components, ui_draws, pc,
                   entity_count, loop_i, current_entity>>
    /\ UNCHANGED <<tick, snapshot, calls, assigned, requested, doomed,
                   dropped, veteran, start_count, last_log>>
    /\ UNCHANGED sets
    /\ UNCHANGED loop_vars

\* world.query_map(position), made by a hook; an index out of range panics
query_map ==
    /\ HookCanCall
    /\ \E position \in Positions :
        IF QueryPanics(entities, position)
        THEN /\ last_query' = NoCall
             /\ pc' = "panicked"
        ELSE /\ last_query' = <<position,
                                IF entities = <<>> THEN <<>>
                                ELSE Ids(QueryMap(entities, tiles, position))>>
             /\ pc' = pc
    /\ CountCall
    /\ last_get' = NoCall
    /\ last_write' = NoCall
    /\ UNCHANGED <<entities, removal_queue, next_id, components, tiles,
                   ui_draws, entity_count, loop_i, current_entity>>
    /\ UNCHANGED hist_vars
    /\ UNCHANGED loop_vars

(* ------------------------ update_entities ------------------------------ *)
UpdatedNow == {calls[k][2] : k \in {j \in 1..Len(calls) : calls[j][1] = "update"}}

\* lines 148-153: the removal filter and the captured count
Filter ==
    /\ pc = "idle"
    /\ tick < MaxTicks
    /\ LET kept == IF removal_queue # <<>>
                   THEN Retain(entities, removal_queue) ELSE entities IN
        /\ entities' = kept
        /\ entity_count' = Len(kept)
        /\ snapshot' = Ids(kept)
        /\ dropped' = dropped \cup (IdSet(entities) \ IdSet(kept))
    /\ removal_queue' = <<>>
    /\ loop_i' = 0
    /\ pc' = "loop"
    /\ calls' = <<Phase("filter")>>
    /\ veteran' = veteran \cup UpdatedNow
    /\ doomed' = requested
    /\ last_query' = NoCall
    /\ last_get' = NoCall
    /\ last_write' = NoCall
    /\ UNCHANGED <<next_id, components, tiles, ui_draws, current_entity,
                   hook_ops>>
    /\ UNCHANGED <<tick, assigned, requested, start_count, log, last_log>>
    /\ UNCHANGED sets
    /\ UNCHANGED loop_vars

\* lines 156-158 and 161: entities.remove(0), then the call of start if the
\* slot is not started, else the call of update
Pop ==
    /\ pc = "loop"
    /\ MoreToVisit(loop_i, entity_count, entities)
    /\ current_entity' = Head(entities)
    /\ entities' = Remove0(entities)
    /\ hook_ops' = 0
    /\ IF ~Head(entities).started
       THEN /\ pc' = "start"
            /\ calls' = Append(calls, <<"start", Head(entities).id, Head(entities).id>>)
            /\ start_count' = [start_count EXCEPT ![Head(entities).id] = @ + 1]
       ELSE /\ pc' = "update"
            /\ calls' = Append(calls, <<"update", Head(entities).id, Head(entities).id>>)
            /\ UNCHANGED start_count
    /\ UNCHANGED <<removal_queue, next_id, components, tiles, ui_draws,
                   entity_count, loop_i, last_query, last_get,
                   last_write>>
    /\ UNCHANGED <<tick, snapshot, assigned, requested, doomed, dropped,
                   veteran, log, last_log>>
    /\ UNCHANGED sets
    /\ UNCHANGED loop_vars

\* lines 159-161: start returned; mark the slot started and call update
StartReturn ==
    /\ pc = "start"
    /\ current_entity' = MarkStarted(current_entity)
    /\ pc' = "update"
    /\ calls' = Append(calls, <<"update", current_entity.id, current_entity.id>>)
    /\ hook_ops' = 0
    /\ last_query' = NoCall
    /\ last_get' = NoCall
    /\ last_write' = NoCall
    /\ UNCHANGED <<entities, removal_queue, next_id, components, tiles,
                   ui_draws, entity_count, loop_i>>
    /\ UNCHANGED <<tick, snapshot, assigned, requested, doomed, dropped,
                   veteran, start_count, log, last_log>>
    /\ UNCHANGED sets
    /\ UNCHANGED loop_vars

\* line 162: update returned; the slot goes to the back of the list
UpdateReturn ==
    /\ pc = "update"
    /\ entities' = Push(entities, current_entity)
    /\ current_entity' = NoEntity
    /\ loop_i' = loop_i + 1
    /\ pc' = "loop"
    /\ hook_ops' = 0
    /\ last_query' = NoCall
    /\ last_get' = NoCall
    /\ last_write' = NoCall
    /\ UNCHANGED <<removal_queue, next_id, components, tiles, ui_draws,
                   entity_count>>
    /\ UNCHANGED hist_vars
    /\ UNCHANGED loop_vars

\* the loop is over and the map is cleared at once, nothing being drawn
ClearEarly ==
    /\ pc = "loop"
    /\ ~MoreToVisit(loop_i, entity_count, entities)
    /\ tiles' = MapClear(tiles)
    /\ pc' = "clear"
    /\ calls' = Append(calls, Phase("clear"))
    /\ UNCHANGED <<entities, removal_queue, next_id, components, ui_draws,
                   entity_count, loop_i, current_entity, hook_ops,
                   last_query, last_get, last_write>>
    /\ UNCHANGED <<tick, snapshot, assigned, requested, doomed, dropped,
                   veteran, start_count, log, last_log, sets>>
    /\ UNCHANGED loop_vars

\* lines 165-166: the loop is over; self.draw() and the flush of stdout
DrawStep ==
    /\ pc = "loop"
    /\ ~MoreToVisit(loop_i, entity_count, entities)
    /\ ui_draws' = Draw(tiles)
    /\ pc' = "clear"
    /\ calls' = Append(calls, Phase("flush"))
    /\ UNCHANGED <<entities, removal_queue, next_id, components, tiles,
                   entity_count, loop_i, current_entity, hook_ops,
                   last_query, last_get, last_write>>
    /\ UNCHANGED <<tick, snapshot, assigned, requested, doomed, dropped,
                   veteran, start_count, log, last_log, sets>>
    /\ UNCHANGED loop_vars

\* line 167: self.map.clear(); update_entities returns
ClearStep ==
    /\ pc = "clear"
    /\ tiles' = MapClear(tiles)
    /\ pc' = "idle"
    /\ ui_draws' = <<>>
    /\ tick' = tick + 1
    /\ last_log' = log
    /\ log' = [c \in Cells |-> <<>>]
    /\ UNCHANGED <<entities, removal_queue, next_id, components,
                   entity_count, loop_i, current_entity, hook_ops,
                   last_query, last_get, last_write>>
    /\ calls' = Append(calls, Phase("clear"))
    /\ UNCHANGED <<snapshot, assigned, requested, doomed, dropped,
                   veteran, start_count>>
    /\ UNCHANGED sets
    /\ UNCHANGED loop_vars

\* one tick, step by step
update_entities ==
    \/ Filter
    \/ Pop
    \/ StartReturn
    \/ UpdateReturn
    \/ DrawStep
    \/ ClearStep

(* ----------------------------- game_loop ------------------------------- *)
world_vars == <<prog_vars, hist_vars>>

\* time passes
Advance ==
    /\ lp \notin {"entry", "done"}
    /\ elapsed < MaxElapsed
    /\ elapsed' = elapsed + Quantum
    /\ UNCHANGED <<lp, delta, current_input, measured, slept, gap, entered>>
    /\ UNCHANGED world_vars

\* line 116: game_loop is called; let mut now = Instant::now()
Enter ==
    /\ lp = "entry"
    /\ pc = "idle"
    /\ elapsed' = 0
    /\ lp' = "measure"
    /\ UNCHANGED <<delta, current_input, measured, slept, gap, entered>>
    /\ UNCHANGED world_vars

\* lines 119-120: delta = now.elapsed(); if delta < MIN_FRAME_TIME
Measure ==
    /\ lp = "measure"
    /\ tick < MaxTicks
    /\ delta' = elapsed
    /\ measured' = elapsed
    /\ slept' = FALSE
    /\ lp' = IF elapsed < MIN_FRAME_TIME THEN "sleep" ELSE "now"
    /\ UNCHANGED <<elapsed, current_input, gap, entered>>
    /\ UNCHANGED world_vars

\* a request to sleep for the time already elapsed
AlreadyElapsed(d) == d

\* line 121: Duration::from_secs_f64(MIN_FRAME_TIME - delta)
Remaining(d) == MIN_FRAME_TIME - d

\* line 121: thread::sleep returns after the requested duration or later
Sleep ==
    /\ lp = "sleep"
    /\ \E late \in {0, Quantum} :
        elapsed' = elapsed + Remaining(delta) + late
    /\ slept' = TRUE
    /\ lp' = "remeasure"
    /\ UNCHANGED <<delta, current_input, measured, gap, entered>>
    /\ UNCHANGED world_vars

\* line 122: delta = now.elapsed()
Remeasure ==
    /\ lp = "remeasure"
    /\ delta' = elapsed
    /\ lp' = "now"
    /\ UNCHANGED <<elapsed, current_input, measured, slept, gap, entered>>
    /\ UNCHANGED world_vars

\* line 124: now = Instant::now()
SetNow ==
    /\ lp = "now"
    /\ gap' = elapsed
    /\ elapsed' = 0
    /\ lp' = "input"
    /\ UNCHANGED <<delta, current_input, measured, slept, entered>>
    /\ UNCHANGED world_vars

\* line 125: self.ui.update_input() polls the terminal for a key
UpdateInput ==
    /\ lp = "input"
    /\ current_input' \in Keys \cup {None}
    /\ lp' = "check"
    /\ UNCHANGED <<elapsed, delta, measured, slept, gap, entered>>
    /\ UNCHANGED world_vars

\* a test that takes any key for the quit key
IsAnyKey(input) == input # None

\* lines 126-129: current_input.is_some_and(|x| x == KeyCode::Char('q'))
IsQuit(input) == input = "q"

\* lines 126-133: break on the quit key, else call update_entities(delta)
QuitCheck ==
    /\ lp = "check"
    /\ IF IsQuit(current_input)
       THEN lp' = "done" /\ UNCHANGED entered
       ELSE lp' = "tick" /\ entered' = tick
    /\ UNCHANGED <<elapsed, delta, current_input, measured, slept, gap>>
    /\ UNCHANGED world_vars

\* update_entities has not yet run its first statement
TickCalled == lp = "tick" /\ tick = entered

\* line 134: update_entities has returned; self.ui.current_input = None
ResetInput ==
    /\ lp = "tick"
    /\ pc = "idle"
    /\ tick > entered
    /\ current_input' = None
    /\ lp' = "measure"
    /\ UNCHANGED <<elapsed, delta, measured, slept, gap, entered>>
    /\ UNCHANGED world_vars

game_loop ==
    \/ Enter
    \/ Measure
    \/ Sleep
    \/ Remeasure
    \/ SetNow
    \/ UpdateInput
    \/ QuitCheck
    \/ ResetInput

\* line 133: update_entities as game_loop runs it
called_update_entities ==
    \/ (TickCalled /\ Filter)
    \/ Pop
    \/ StartReturn
    \/ UpdateReturn
    \/ DrawStep
    \/ ClearStep

\* the running hook, if any, has made fewer than MaxTerseOps calls
Terse == hook_ops < MaxTerseOps

\* the scheduler alone
SchedNext ==
    \/ (Terse /\ add_entity)
    \/ (Terse /\ remove_entity)
    \/ update_entities

SchedSpec == Init /\ [][SchedNext]_vars

\* update_entities runs to its end: the loop is sequential code and a hook
\* that has returned is followed by the next statement
SchedFairSpec == SchedSpec /\ WF_vars(update_entities)

\* the scheduler and the grid
GridNext ==
    \/ (next_id < MaxWriters /\ Terse /\ add_entity)
    \/ (Terse /\ remove_entity)
    \/ (Terse /\ map_write)
    \/ (Terse /\ query_map)
    \/ (tick < MaxGridTicks /\ Filter)
    \/ Pop
    \/ StartReturn
    \/ UpdateReturn
    \/ DrawStep
    \/ ClearStep

GridSpec == Init /\ [][GridNext]_vars

\* the scheduler and the grid, with hooks that make several calls
RedrawNext ==
    \/ (next_id < MaxActors /\ add_entity)
    \/ remove_entity
    \/ map_write
    \/ query_map
    \/ update_entities

RedrawSpec == Init /\ [][RedrawNext]_vars

\* the scheduler and the component store
AttrNext ==
    \/ (next_id < MaxBags /\ Terse /\ add_entity)
    \/ (Terse /\ remove_entity)
    \/ (Terse /\ set_component)
    \/ (Terse /\ get_component)
    \/ update_entities

AttrSpec == Init /\ [][AttrNext]_vars

\* game_loop: as in main.rs the entities are added before it is called
\* and it alone calls update_entities
LoopNext ==
    \/ (lp = "entry" /\ next_id < MaxActors /\ add_entity)
    \/ game_loop
    \/ called_update_entities
    \/ (Terse /\ map_write)
    \/ Advance

LoopSpec == Init /\ [][LoopNext]_vars

\* game_loop and update_entities are sequential code: a statement that can
\* run does run
LoopFairSpec ==
    LoopSpec /\ WF_vars(game_loop) /\ WF_vars(called_update_entities)

TypeOK ==
    /\ pc \in {"idle", "loop", "start", "update", "clear", "panicked"}
    /\ next_id \in 0..MaxEntities
    /\ loop_i \in 0..MaxEntities
    /\ Len(removal_queue) <= MaxQueue
    /\ hook_ops \in 0..MaxHookOps
    /\ tick \in 0..MaxTicks

(* ------------------------ this tick's events --------------------------- *)
EventsOf(kinds) == SelectSeq(calls, LAMBDA ev : ev[1] \in kinds)

Visits == EventsOf({"start", "update"})

UpdateIds == [k \in 1..Len(EventsOf({"update"})) |-> EventsOf({"update"})[k][2]]

\* handles assigned by add_entity from inside a hook of this tick
Added == {calls[k][2] : k \in {j \in 1..Len(calls) : calls[j][1] = "add"}}

UpdateCount(h) == Cardinality({k \in 1..Len(UpdateIds) : UpdateIds[k] = h})

\* the pass of this tick is over
PassOver == pc = "clear" \/ (pc = "idle" /\ tick > 0)

(* ------------------------------ claims --------------------------------- *)
\* C1 Late-add exclusion: an entity created by add_entity from inside a
\* start or update hook of this tick receives neither start nor update in
\* this tick; it waits, unstarted, in the list for the next tick.
LateAddExclusion ==
    /\ \A k \in 1..Len(Visits) : Visits[k][2] \notin Added
    /\ current_entity.id \notin Added
    /\ \A h \in Added : h \in IdSet(entities) /\ start_count[h] = 0

\* two entities were added in this tick, one of them by an entity that was
\* not the last to be visited, and the pass is over
LateAddWitness ==
    /\ pc = "clear"
    /\ Cardinality(Added) >= 2
    /\ \E a, b \in 1..Len(calls) :
        /\ a < b
        /\ calls[a][1] = "add"
        /\ calls[b][1] = "update"
        /\ calls[b][2] # calls[a][3]

\* C2 Deferred removal: remove_entity never drops a slot during the tick in
\* which it is called: every entity live after the tick's filter step stays
\* in the list (or is the one being visited), is updated in that tick even
\* when its removal is pending, and is back in the list after a removal of
\* itself; after the next filter step the entity is gone for good.
DeferredRemoval ==
    /\ \A h \in Range(snapshot) : h \in IdSet(entities) \cup {current_entity.id}
    /\ PassOver => \A h \in Range(snapshot) : UpdateCount(h) = 1
    /\ \A k \in 1..Len(calls) :
        (calls[k][1] = "remove" /\ calls[k][2] = calls[k][3]
                                /\ current_entity.id # calls[k][3])
            => calls[k][2] \in IdSet(entities)
    /\ \A h \in doomed :
        /\ h \notin IdSet(entities)
        /\ h # current_entity.id
        /\ h \notin Range(snapshot)

\* an entity asked for its own removal during its update, was put back in
\* the list, and an earlier removal has already taken effect
DeferredRemovalWitness ==
    /\ pc = "clear"
    /\ doomed # {}
    /\ \E k \in 1..Len(calls) :
        /\ calls[k] = <<"remove", calls[k][3], calls[k][3]>>
        /\ k > 1
        /\ calls[k - 1] = <<"update", calls[k][3], calls[k][3]>>
        /\ calls[k][3] \in IdSet(entities)

\* C3 Iteration order: in every tick the entities are updated in strictly
\* increasing handle order (insertion order, oldest first), whatever was
\* added or removed before.
IterationOrder ==
    /\ StrictlyIncreasing(UpdateIds)
    /\ StrictlyIncreasing(snapshot)

\* the visits of a pass: only entities live after the filter step are
\* updated, none twice; when the pass is over each of them has been updated
\* once and the loop has made exactly entity_count iterations
ExactlyOnceVisit ==
    /\ \A k \in 1..Len(UpdateIds) : UpdateIds[k] \in Range(snapshot)
    /\ \A h \in Range(snapshot) : UpdateCount(h) <= 1
    /\ pc # "idle" => entity_count = Len(snapshot)
    /\ InHook => loop_i < entity_count
    /\ loop_i <= entity_count
    /\ pc \in {"loop", "clear"} => Len(UpdateIds) = loop_i
    /\ PassOver =>
        /\ loop_i = Len(snapshot)
        /\ \A h \in Range(snapshot) : UpdateCount(h) = 1

\* a pass that has begun reaches the flush
PassTerminates == (pc \in {"loop", "start", "update"}) ~> (pc = "clear")

\* C4 Exactly-once visit: in every tick each entity live after the filter
\* step is updated exactly once, in exactly entity_count iterations (the
\* count captured after the filter) whatever the hooks add or remove, and
\* the pass terminates.
ExactlyOncePass == []ExactlyOnceVisit /\ PassTerminates

\* a pass over two or more entities during which hooks added and removed
ExactlyOnceWitness ==
    /\ pc = "clear"
    /\ Len(snapshot) >= 2
    /\ Added # {}
    /\ \E k \in 1..Len(calls) : calls[k][1] = "remove"

\* C5 Start-once: start is called at most once per entity, in the tick of
\* its first visit, immediately followed by its first update; a started
\* slot is one whose start has been called, so the flag never goes back.
StartOnce ==
    /\ \A h \in Handles : start_count[h] <= 1
    /\ \A h \in veteran : start_count[h] = 1
    /\ \A k \in 1..Len(Visits) :
        /\ Visits[k][1] = "start" =>
            /\ Visits[k][2] \notin veteran
            /\ IF k < Len(Visits)
               THEN Visits[k + 1] = <<"update", Visits[k][2], Visits[k][2]>>
               ELSE pc = "start" /\ current_entity.id = Visits[k][2]
        /\ Visits[k][1] = "update" =>
            \/ Visits[k][2] \in veteran
            \/ k > 1 /\ Visits[k - 1] = <<"start", Visits[k][2], Visits[k][2]>>
    /\ \A k \in 1..Len(entities) :
        entities[k].started <=> start_count[entities[k].id] = 1
    /\ pc = "start" => ~current_entity.started /\ start_count[current_entity.id] = 1
    /\ pc = "update" => current_entity.started /\ start_count[current_entity.id] = 1

\* in the third tick an entity started in an earlier tick is updated again
\* without a start, while another entity is started
StartOnceWitness ==
    /\ pc = "clear"
    /\ tick >= 2
    /\ \E k \in 1..Len(Visits) : Visits[k][1] = "start"
    /\ \E k \in 1..Len(Visits) :
        /\ Visits[k][1] = "update"
        /\ Visits[k][2] \in veteran
        /\ (k > 1 => Visits[k - 1][1] # "start")

\* C10 Handle uniqueness: the handles assigned by successive add_entity
\* calls are strictly increasing, hence pairwise distinct, and a handle
\* whose slot was dropped is not assigned again.
HandleUniqueness ==
    /\ StrictlyIncreasing(assigned)
    /\ \A a, b \in 1..Len(assigned) : a # b => assigned[a] # assigned[b]
    /\ \A h \in dropped : Cardinality({k \in 1..Len(assigned) : assigned[k] = h}) <= 1
    /\ \A k \in 1..Len(assigned) : assigned[k] < next_id

\* every handle has been assigned, the last one after a slot was dropped:
\* its entity is still unstarted between ticks
HandleUniquenessWitness ==
    /\ pc = "idle"
    /\ Len(assigned) = MaxEntities
    /\ dropped # {}
    /\ \E k \in 1..Len(entities) :
        /\ ~entities[k].started
        /\ entities[k].id = assigned[Len(assigned)]

(* --------------------------- the latest query -------------------------- *)
\* the latest call was a query of a cell of the grid
Queried == last_query # NoCall /\ InBounds(last_query[1])

QueryCell == last_query[1]

QueryResult == last_query[2]

\* handles assigned and not dropped by any filter step
LiveHandles == (0..(next_id - 1)) \ dropped

PositionIn(es, h) == CHOOSE k \in 1..Len(es) : es[k].id = h

BufferLag ==
    /\ \A c \in Cells : tiles[c].previous_contents = last_log[c]
    /\ tick = 0 => \A c \in Cells : tiles[c].previous_contents = <<>>

\* during a later tick a cell written twice by one entity in the previous
\* tick has been written again, differently
BufferLagWitness ==
    /\ InHook
    /\ tick >= 1
    /\ \E c \in Cells :
        /\ Len(last_log[c]) > Cardinality(Range(last_log[c]))
        /\ log[c] # <<>>
        /\ log[c] # last_log[c]

\* C9 Attribute bag lifetime: once a filter step has dropped an entity, no
\* attribute of any type can be read for its handle.
AttributeBagLifetime ==
    \A h \in dropped : \A ty \in Types : GetComponent(components, h, ty) = None

(* ----------------------------- the flush ------------------------------- *)
\* World::draw and the flush have run; Map::clear has not
Flushed == pc = "clear"

\* the terminal_draw calls of this tick's flush for cell c
DrawOf(c) == SelectSeq(ui_draws, LAMBDA d : d[1] = c)

\* the glyph and color a cell has after Map::clear
Blank == <<" ", "Black">>

\* the redraw rule: at a flush one draw call is made for each cell whose
\* current_contents or previous_contents is non-empty, that is, for each
\* cell written in this tick or in the previous one, and none for any other
\* cell; the call carries the last writer's glyph, or the blank glyph when
\* the cell was written in the previous tick only
RedrawRule ==
    Flushed =>
        /\ \A k \in 1..Len(ui_draws) : ui_draws[k][1] \in Cells
        /\ \A c \in Cells :
            /\ Len(DrawOf(c)) =
                  IF tiles[c].current_contents # <<>>
                        \/ tiles[c].previous_contents # <<>>
                  THEN 1 ELSE 0
            /\ Len(DrawOf(c)) =
                  IF log[c] # <<>> \/ last_log[c] # <<>> THEN 1 ELSE 0
            /\ log[c] # <<>> =>
                  DrawOf(c) = << <<c>> \o BrushOf(log[c][Len(log[c])]) >>
            /\ (log[c] = <<>> /\ last_log[c] # <<>>) =>
                  DrawOf(c) = << <<c>> \o Blank >>

\* a query made during tick 0 returns nothing
FirstTickQuery == (tick = 0 /\ Queried) => QueryResult = <<>>

\* the flush of tick 1 when entity h, the only entity there has been, has
\* written cell c in tick 0 and in tick 1 and has called remove_entity on
\* itself during tick 1
SceneSet(h, c) ==
    /\ Flushed
    /\ tick = 1
    /\ assigned = <<h>>
    /\ h \in Range(last_log[c])
    /\ h \in Range(log[c])
    /\ \E k \in 1..Len(calls) : calls[k] = <<"remove", h, h>>
    /\ DrawOf(c) # <<>>

\* what follows while no other entity is added: tick 2 visits no entity
\* and draws c once, blank; from tick 3 on c is not drawn
SceneEnd(h, c) ==
    assigned = <<h>> =>
        /\ (tick >= 2 /\ pc # "idle") => snapshot = <<>> /\ Visits = <<>>
        /\ (tick = 2 /\ Flushed) => DrawOf(c) = << <<c>> \o Blank >>
        /\ (tick >= 3 /\ Flushed) => DrawOf(c) = <<>>

ScenePlays == \A h \in Handles, c \in Cells : [](SceneSet(h, c) => []SceneEnd(h, c))

\* C11 Redraw rule and end-to-end scenario: at each tick's flush a draw
\* call is emitted for exactly the cells whose current or previous
\* occupants are non-empty.  For an entity E1 that writes cell c in every
\* tick it is visited and calls remove_entity on itself during tick 1: a
\* query during tick 0 returns empty, c is drawn at the flushes of ticks 0
\* and 1, tick 2 visits zero entities yet draws c once more with the blank
\* glyph, and from tick 3 on c is not drawn.
RedrawScenario == []RedrawRule /\ []FirstTickQuery /\ ScenePlays

\* the flush of tick 2 of the scenario: the only entity wrote a cell in
\* tick 1 and its slot has been dropped since; no entity was visited in
\* this tick and the cell is drawn blank while another cell is not drawn
RedrawWitness ==
    /\ Flushed
    /\ tick = 2
    /\ Len(assigned) = 1
    /\ assigned[1] \in dropped
    /\ snapshot = <<>>
    /\ \E c \in Cells :
        /\ assigned[1] \in Range(last_log[c])
        /\ DrawOf(c) = << <<c>> \o Blank >>
    /\ \E c \in Cells : DrawOf(c) = <<>>

(* --------------------------- the latest write -------------------------- *)
\* the latest call was a map.write
Written == last_write # NoCall

\* the cell (min(x, w-1), min(y, h-1))
WriteTarget(position) ==
    <<IF position[1] < MapWidth - 1 THEN position[1] ELSE MapWidth - 1,
      IF position[2] < MapHeight - 1 THEN position[2] ELSE MapHeight - 1>>

\* one write(position, glyph, color, owner): it returns to the hook that
\* made it and changes the target cell as stated and nothing else
WriteStep ==
    last_write' # NoCall =>
        LET p == WriteTarget(last_write'[1]) IN
        /\ p \in Cells
        /\ tiles'[p] = MapTile(last_write'[2], last_write'[3],
                               Append(tiles[p].current_contents, last_write'[4]),
                               tiles[p].previous_contents)
        /\ \A c \in Cells \ {p} : tiles'[c] = tiles[c]
        /\ pc' = pc
        /\ UNCHANGED <<entities, removal_queue, next_id, components, ui_draws>>

\* within a tick a cell's current_contents holds every write made to it,
\* in order, and the cell shows its last writer's glyph and color
WriteKept ==
    \A c \in Cells :
        /\ tiles[c].current_contents = log[c]
        /\ log[c] # <<>> =>
              <<tiles[c].display_character, tiles[c].color>> =
                  BrushOf(log[c][Len(log[c])])

\* C12 Write clamping and effect: for every position (x, y), write never
\* fails and affects exactly the cell (min(x, w-1), min(y, h-1)): it sets
\* the cell's glyph and color (the last writer in a frame wins) and appends
\* the owner to its current_contents without deduplication; every other
\* cell and the target's previous_contents are unchanged.
WriteClamping == []WriteKept /\ [][WriteStep]_vars

\* a write beyond both edges lands in the corner cell, which this entity
\* and an entity with another glyph have already written in this tick and
\* which was written in the previous tick
WriteClampingWitness ==
    /\ Written
    /\ last_write[1] = <<MapWidth, MapHeight>>
    /\ LET p == <<MapWidth - 1, MapHeight - 1>> IN
        /\ Cardinality({k \in 1..Len(log[p]) : log[p][k] = last_write[4]}) >= 2
        /\ \E k \in 1..Len(log[p]) : BrushOf(log[p][k]) # BrushOf(last_write[4])
        /\ tiles[p].previous_contents # <<>>

\* C13 Query clamping: query_map clamps its position exactly as write does:
\* for every position, beyond the grid's width or height included, the
\* query does not fail and returns the occupants of the cell
\* (min(x, w-1), min(y, h-1)).
QueryClamping ==
    /\ pc # "panicked"
    /\ last_query # NoCall =>
          QueryResult = Ids(QueryMap(entities, tiles, WriteTarget(QueryCell)))

(* -------------------------- the component store ------------------------ *)
\* the value set_component was last given for handle h and type ty
Latest(h, ty) ==
    IF sets[h][ty] = <<>> THEN None ELSE sets[h][ty][Len(sets[h][ty])]

\* C14 Attribute overwrite and isolation: for a live handle h and a type A,
\* get_component returns the value most lately set for (h, A), so a1 then
\* a2 gives a2; it returns None for a type never set on h, and for every
\* type of a freshly added entity; a set on (h, A) changes neither h's
\* values of other types nor any other entity's attributes.
AttributeStore ==
    /\ \A h \in LiveHandles, ty \in Types :
          GetComponent(components, h, ty) = Latest(h, ty)
    /\ (last_get # NoCall /\ last_get[1] \in LiveHandles) =>
          last_get[3] = Latest(last_get[1], last_get[2])

\* a get returns the second of two different values set for (h, A) while
\* h's other type was never set and reads None, and another live entity
\* holds another value for A
AttributeStoreWitness ==
    /\ last_get # NoCall
    /\ last_get[1] \in LiveHandles
    /\ LET h == last_get[1]
           A == last_get[2] IN
        /\ Len(sets[h][A]) = 2
        /\ sets[h][A][1] # sets[h][A][2]
        /\ last_get[3] = sets[h][A][2]
        /\ \A B \in Types \ {A} :
              sets[h][B] = <<>> /\ GetComponent(components, h, B) = None
        /\ \E g \in LiveHandles \ {h} :
              GetComponent(components, g, A) \notin {None, last_get[3]}

(* ------------------------------ removal -------------------------------- *)
\* the handles of the slots the World holds: the list's, and the popped one
Held == IdSet(entities) \cup (IF InHook THEN {current_entity.id} ELSE {})

\* C15 remove_entity robustness: the slots a filter step drops are those of
\* the entities for which remove_entity was called, however often, while
\* they had their handle; a call with a handle already removed or never
\* assigned removes no entity, whatever add_entity calls follow it before
\* the filter step: the live set is as if the call had not been made.
RemoveRobustness == Held = Range(assigned) \ doomed

(* ------------------------------ pacing --------------------------------- *)
\* game_loop is past its pacing statements in this iteration
Paced == lp \in {"now", "input", "check", "tick"}

\* a tick has started: Instant::now() of line 124 is the instant from which
\* the next iteration measures its elapsed time
TickStarted == lp \in {"input", "check", "tick"}

\* C16 Pacing floor: the delta passed to every tick is at least
\* MIN_FRAME_TIME (40 ms) and two consecutive tick starts are at least that
\* far apart, the sleep lasting at least what was requested; when the time
\* elapsed since the last tick start is already 40 ms or more no sleep is
\* performed and delta is that elapsed time.
PacingFloor ==
    /\ Paced => delta >= MIN_FRAME_TIME
    /\ pc # "idle" => lp = "tick" /\ delta >= MIN_FRAME_TIME
    /\ TickStarted => gap >= MIN_FRAME_TIME /\ gap >= delta
    /\ Paced =>
        /\ measured >= MIN_FRAME_TIME => ~slept /\ delta = measured
        /\ measured < MIN_FRAME_TIME => slept
    /\ lp = "sleep" => delta < MIN_FRAME_TIME

\* a second or later tick runs after an iteration whose work took some
\* time, less than 40 ms, and whose sleep returned late
PacingFloorWitness ==
    /\ lp = "tick"
    /\ pc = "update"
    /\ tick >= 1
    /\ slept
    /\ measured > 0
    /\ delta > MIN_FRAME_TIME

(* ----------------------------- tick phases ----------------------------- *)
KindAt(k) == calls[k][1]

\* C17 Tick phase order: every tick runs removal filter, entity pass (the
\* start/update calls and the grid writes they make), flush, clear, in this
\* order: the filter comes before the first start or update, a clear only
\* right after the flush of the same tick, and no start, update or write
\* between a tick's flush and its clear.
PhaseOrder ==
    /\ calls # <<>> => KindAt(1) = "filter"
    /\ \A k \in 2..Len(calls) : KindAt(k) # "filter"
    /\ \A k \in 1..Len(calls) :
        /\ KindAt(k) = "flush" =>
              k = Len(calls) \/ (k + 1 = Len(calls) /\ KindAt(k + 1) = "clear")
        /\ KindAt(k) = "clear" =>
              k = Len(calls) /\ k > 1 /\ KindAt(k - 1) = "flush"
    /\ pc \in {"loop", "start", "update"} =>
          /\ calls # <<>>
          /\ \A k \in 1..Len(calls) : KindAt(k) \notin {"flush", "clear"}
    /\ Written => InHook
    /\ Flushed => KindAt(Len(calls)) = "flush"
    /\ (pc = "idle" /\ tick > 0) => KindAt(Len(calls)) = "clear"
    /\ (pc = "idle" /\ tick = 0) => calls = <<>>
    /\ pc = "idle" => \A c \in Cells : tiles[c].current_contents = <<>>

\* a tick is over in which the filter dropped a slot, several entities were
\* started or updated and wrote the grid, and the flush drew a cell
PhaseOrderWitness ==
    /\ pc = "idle"
    /\ tick >= 2
    /\ Len(snapshot) >= 2
    /\ doomed # {}
    /\ \E c \in Cells : Len(last_log[c]) >= 2
    /\ \E k \in 1..Len(calls) : KindAt(k) = "start"
    /\ KindAt(Len(calls)) = "clear"

(* -------------------------------- quit --------------------------------- *)
\* game_loop has left its loop
Quit == lp = "done"

\* where the quit key is examined, and what the World is doing meanwhile
QuitSafe ==
    /\ lp = "check" => pc = "idle"
    /\ pc # "idle" => lp = "tick" /\ current_input # "q"
    /\ Quit => pc = "idle" /\ current_input = "q"
    /\ lp \in {"measure", "sleep", "remeasure", "now", "input"} =>
          current_input = None

\* the quit key is examined right after the poll; the loop is left only
\* there, only on the quit key and without a step of update_entities; once
\* it is left the World never changes again
QuitStep ==
    /\ lp' = "check" => lp \in {"input", "check"}
    /\ (lp = "input" /\ lp' # lp) => lp' = "check"
    /\ (lp = "check" /\ lp' # lp) =>
          /\ UNCHANGED world_vars
          /\ lp' = IF current_input = "q" THEN "done" ELSE "tick"
    /\ Quit => UNCHANGED vars

\* without the quit key the tick runs, to its clear step, and the input
\* is reset to none afterwards
TickRuns ==
    /\ (lp = "check" /\ current_input # "q") ~> Flushed
    /\ (pc # "idle") ~> (pc = "idle" /\ lp = "tick" /\ tick > entered)
    /\ (lp = "tick") ~> (lp = "measure" /\ current_input = None)

\* C18 Quit handling: the quit key is examined only between ticks, right
\* after the input is polled and before the entity pass; on the quit key
\* no start or update runs in that iteration, nothing is flushed or
\* cleared and no further tick ever runs; a tick that has begun always
\* runs to its clear step; without the quit key the tick runs and the
\* current input is reset to none afterwards.
QuitHandling == []QuitSafe /\ [][QuitStep]_vars /\ TickRuns

\* the loop was left on the quit key after a tick in which the entity,
\* still live, wrote the grid
QuitHandlingWitness ==
    /\ Quit
    /\ tick >= 1
    /\ tick < MaxTicks
    /\ entities # <<>>
    /\ \E c \in Cells : tiles[c].previous_contents # <<>>
    /\ KindAt(Len(calls)) = "clear"

(* ------------------------------ the slots ------------------------------ *)
\* C19 Caller exclusion: while an entity's start or update hook runs its
\* own slot is not in the entity list, so a query it makes never returns
\* the entity itself, even when its handle is in the queried cell's
\* previous_contents; the result holds only other entities, all in the list.
CallerExclusion ==
    /\ InHook => current_entity.id \notin IdSet(entities)
    /\ Queried =>
        /\ InHook
        /\ current_entity.id \notin Range(QueryResult)
        /\ Range(QueryResult) \subseteq IdSet(entities) \ {current_entity.id}

\* an entity queries a cell that it alone wrote in the previous tick, other
\* entities being in the list: the result is empty
CallerExclusionWitness ==
    /\ Queried
    /\ Range(tiles[QueryCell].previous_contents) = {current_entity.id}
    /\ entities # <<>>
    /\ QueryResult = <<>>

\* C20 Slot conservation: at the end of a tick the entity list holds the
\* slots that survived the tick's filter and the slots add_entity added
\* during the tick, each once; at every point the handles in the list are
\* pairwise distinct, below next_id, and each has a component bag; between
\* ticks every cell's current_contents is empty.
SlotConservation ==
    /\ Flushed =>
        /\ IdSet(entities) = Range(snapshot) \cup Added
        /\ Len(entities) = Len(snapshot) + Cardinality(Added)
    /\ \A a, b \in 1..Len(entities) : a # b => entities[a].id # entities[b].id
    /\ \A k \in 1..Len(entities) :
        /\ entities[k].id \in 0..(next_id - 1)
        /\ entities[k].id \in DOMAIN components
        /\ entities[k].id # current_entity.id
    /\ pc = "idle" => \A c \in Cells : tiles[c].current_contents = <<>>

\* a tick has ended whose filter dropped a slot, whose hooks added a slot
\* and wrote the grid; the list holds the survivors and the added slot
\* and no cell has current occupants
SlotConservationWitness ==
    /\ pc = "idle"
    /\ tick >= 2
    /\ Added # {}
    /\ snapshot # <<>>
    /\ Cardinality(dropped) = 1
    /\ \E c \in Cells : last_log[c] # <<>>
    /\ IdSet(entities) = Range(snapshot) \cup Added
    /\ \A c \in Cells : tiles[c].current_contents = <<>>
====
